---- MODULE Spec2Model ----
(***************************************************************************)
(* Model of the multi-agent orchestrator                                   *)
(* (src/src/orchestrator/multi_agent_orchestrator.py) and of the three     *)
(* agents it drives (src/src/agents/*.py).                                 *)
(*                                                                         *)
(* Texts are sequences of tokens.  The generation capability (the LLM      *)
(* behind `chain.invoke`) is the only blocking point of the program: an    *)
(* action runs the code from one generation call to the next one, so a     *)
(* state is "idle" or "blocked in the generation call of step pc".         *)
(* The call either returns a text drawn from Responses or raises.          *)
(***************************************************************************)
EXTENDS Integers, Sequences, FiniteSets, TLC

VARIABLES
    workflow_history,   \* self.workflow_history: the orchestrator's step log
    clock,              \* the wall clock read by datetime.now() in log_step
    pc,                 \* position of the running operation ("idle" when none)
    locals,             \* local variables of the running operation
    inflight,           \* generation requests sent and not yet answered
    calls,              \* agent operations invoked by the current operation
    ncalls,             \* generation calls issued over the instance's lifetime
    nops,               \* operations called on the instance over its lifetime
    entry_len,          \* length of the step log when the current operation was called
    records,            \* WorkflowRecords returned to the caller so far
    sinks,              \* the files written by save_workflow_results, by name
    last                \* outcome of the last finished operation

vars == <<workflow_history, clock, pc, locals, inflight, calls, ncalls, nops, entry_len,
         records, sinks, last>>

----------------------------------------------------------------------------
(* Bounds and input sets *)

MaxCalls == 6           \* generation calls over one orchestrator's lifetime
MaxOps == 2             \* operations called on one orchestrator
MaxPerspectives == 3    \* length of a perspectives list

Topics == {<<"T1">>, <<"T2">>}
Contexts == {<< >>, <<"ctx">>}
Labels == {<<"A">>, <<"B">>}
Responses == {<< >>, <<"x", "y">>}
Filenames == <<"out_1.json", "out_2.json">>

RECURSIVE SeqsUpTo(_, _)
SeqsUpTo(S, n) ==
    IF n = 0 THEN {<< >>}
    ELSE LET shorter == SeqsUpTo(S, n - 1)
         IN  shorter \cup {Append(s, x) : s \in {t \in shorter : Len(t) = n - 1}, x \in S}

\* The code compares labels for equality only, so up to renaming a list
\* starts with "A"
PerspectiveLists ==
    {ps \in SeqsUpTo(Labels, MaxPerspectives) : ps = << >> \/ ps[1] = <<"A">>}

\* Topics are opaque to the code as well: up to renaming, the first
\* operation called on an orchestrator is about "T1"
CallTopics == IF nops = 0 THEN {<<"T1">>} ELSE Topics

----------------------------------------------------------------------------
(* Python values *)

None == [py_none |-> TRUE]

\* The alias stored under "workflow_history" in a returned dict: a reference
\* to the list object self.workflow_history, not a copy of it.
HistoryRef == [ref |-> "self.workflow_history"]

\* The object a "workflow_history" field leads to: the orchestrator's list
\* for the alias, the list copied into the field otherwise
Deref(field) == IF "ref" \in DOMAIN field THEN workflow_history ELSE field.copy

\* A file that was never written
NoFile == [exists |-> FALSE]

\* s is a contiguous substring of t
IsSubstring(s, t) ==
    \E i \in 0..(Len(t) - Len(s)) : SubSeq(t, i + 1, i + Len(s)) = s

\* sep.join(parts)
RECURSIVE Join(_, _)
Join(sep, parts) ==
    IF Len(parts) = 0 THEN << >>
    ELSE IF Len(parts) = 1 THEN parts[1]
    ELSE parts[1] \o sep \o Join(sep, Tail(parts))

\* Insertion-ordered dict, as a sequence of <<key, value>> pairs.
DictKeys(d) == [k \in 1..Len(d) |-> d[k][1]]
DictHas(d, key) == \E k \in 1..Len(d) : d[k][1] = key
DictGet(d, key) == d[CHOOSE k \in 1..Len(d) : d[k][1] = key][2]
\* d[key] = value: an existing key keeps its position and takes the new value
DictSet(d, key, value) ==
    IF DictHas(d, key)
    THEN [k \in 1..Len(d) |-> IF d[k][1] = key THEN <<key, value>> ELSE d[k]]
    ELSE Append(d, <<key, value>>)

----------------------------------------------------------------------------
(* ResearcherAgent *)

ResearcherName == "Researcher"

\* `x or default` on a string
OrDefault(x, default) == IF x = << >> THEN default ELSE x

\* research(): the request handed to chain.invoke
ResearchRequest(topic, context) ==
    LET ctx == OrDefault(context, <<"General overview needed">>)
    IN  [agent   |-> ResearcherName,
         op      |-> "research",
         topic   |-> topic,
         context |-> ctx,
         prompt  |-> <<"Research the following topic: ">> \o topic
                     \o <<"\n\nAdditional context: ">> \o ctx
                     \o <<"\n\nProvide a comprehensive research report.">>]

\* research(): the dict built from the response
ResearchResult(topic, content) ==
    [agent |-> ResearcherName, topic |-> topic, findings |-> content,
     needs_fact_checking |-> TRUE]

(* FactCheckerAgent *)

FactCheckerName == "FactChecker"

FactCheckRequest(research_content, topic) ==
    [agent   |-> FactCheckerName,
     op      |-> "fact_check",
     topic   |-> topic,
     content |-> research_content,
     prompt  |-> <<"Topic: ">> \o topic
                 \o <<"\n\nResearch Content to Fact-Check:\n">> \o research_content
                 \o <<"\n\nProvide a detailed fact-check report including: ...">>]

FactCheckResult(topic, content) ==
    [agent |-> FactCheckerName, topic |-> topic, fact_check_report |-> content,
     status |-> "reviewed"]

CrossCheckRequest(research_a, research_b, topic) ==
    [agent      |-> FactCheckerName,
     op         |-> "cross_check",
     topic      |-> topic,
     research_a |-> research_a,
     research_b |-> research_b,
     prompt     |-> <<"Topic: ">> \o topic
                    \o <<"\n\nResearch Source A:\n">> \o research_a
                    \o <<"\n\nResearch Source B:\n">> \o research_b
                    \o <<"\n\nCross-check these two research sources and identify: ...">>]

CrossCheckResult(topic, content) ==
    [agent |-> FactCheckerName, topic |-> topic, cross_check_report |-> content]

(* WriterAgent *)

WriterName == "Writer"

\* length_guidance.get(target_length, length_guidance["medium"])
LengthGuidance(target_length) ==
    IF target_length = "short" THEN <<"500-800 words, focus on key points">>
    ELSE IF target_length = "long" THEN <<"2000+ words, in-depth analysis">>
    ELSE <<"1000-1500 words, comprehensive coverage">>

WriteArticleRequest(topic, research_content, fact_check_report, style, target_length) ==
    [agent      |-> WriterName,
     op         |-> "write_article",
     topic      |-> topic,
     research   |-> research_content,
     fact_check |-> fact_check_report,
     style      |-> style,
     length     |-> LengthGuidance(target_length),
     prompt     |-> <<"Write a ", style, " article on the topic: ">> \o topic
                    \o <<"\n\nResearch Content:\n">> \o research_content
                    \o <<"\n\nFact-Check Report:\n">> \o fact_check_report
                    \o <<"\n\nTarget Length: ">> \o LengthGuidance(target_length)
                    \o <<"\n\nInstructions: ... Write in a ", style, " style ...">>]

WriteArticleResult(topic, style, content) ==
    [agent |-> WriterName, topic |-> topic, style |-> style,
     content_type |-> "article", content |-> content]

\* write_summary(topic, research_content, max_paragraphs)
WriteSummaryRequest(topic, research_content, max_paragraphs) ==
    [agent      |-> WriterName,
     op         |-> "write_summary",
     topic      |-> topic,
     research   |-> research_content,
     paragraphs |-> max_paragraphs,
     prompt     |-> <<"Create a concise summary of the following research on: ">> \o topic
                    \o <<"\n\nResearch Content:\n">> \o research_content
                    \o <<"\n\nWrite a clear, accurate summary in ", ToString(max_paragraphs),
                         " paragraphs or less. ...">>]

WriteSummaryResult(topic, content) ==
    [agent |-> WriterName, topic |-> topic, content_type |-> "summary",
     content |-> content]

\* "\n\n".join(f"Perspective {i+1} ({name}):\n{content}" for i, (name, content) ...)
PerspectivesText(perspectives) ==
    Join(<<"\n\n">>,
         [k \in 1..Len(perspectives) |->
             <<"Perspective ", ToString(k), " (">> \o perspectives[k][1] \o <<"):\n">>
             \o perspectives[k][2]])

\* write_comparison(topic, perspectives, cross_check_report); cross_check_report
\* is None or a text, and `if cross_check_report` is false for None and for ""
WriteComparisonRequest(topic, perspectives, cross_check_report) ==
    LET cross_check == IF cross_check_report = None \/ cross_check_report = [text |-> << >>]
                       THEN << >>
                       ELSE <<"\nCross-Check Analysis:\n">> \o cross_check_report.text
    IN  [agent              |-> WriterName,
         op                 |-> "write_comparison",
         topic              |-> topic,
         perspectives       |-> perspectives,
         cross_check_report |-> cross_check_report,
         prompt             |-> <<"Write a comparison analysis on: ">> \o topic
                                \o <<"\n\nDifferent Perspectives:\n">>
                                \o PerspectivesText(perspectives)
                                \o <<"\n\n">> \o cross_check
                                \o <<"\n\nCreate a balanced comparison that: ...">>]

WriteComparisonResult(topic, content) ==
    [agent |-> WriterName, topic |-> topic, content_type |-> "comparison",
     content |-> content]

----------------------------------------------------------------------------
(* MultiAgentOrchestrator *)

\* log_step that rebinds the log to a new list holding the new entry only
log_step_overwrite(history, now, step_name, agent, data) ==
    <<[timestamp |-> now, step |-> step_name, agent |-> agent, data |-> data]>>

\* log_step that puts the new entry in front of the log
log_step_prepend(history, now, step_name, agent, data) ==
    <<[timestamp |-> now, step |-> step_name, agent |-> agent, data |-> data]>> \o history

\* log_step(step_name, agent, data), on the log `history` at time `now`
log_step(history, now, step_name, agent, data) ==
    Append(history, [timestamp |-> now, step |-> step_name, agent |-> agent,
                     data |-> data])

Init ==
    /\ workflow_history = << >>
    /\ clock = 0
    /\ pc = "idle"
    /\ locals = [op |-> "none"]
    /\ inflight = << >>
    /\ calls = << >>
    /\ ncalls = 0
    /\ nops = 0
    /\ entry_len = 0
    /\ records = << >>
    /\ sinks = [f \in 1..Len(Filenames) |-> NoFile]
    /\ last = [op |-> "none", status |-> "none"]

\* Invoke an agent operation: its request goes to the generation capability
\* and the program blocks until the response.  `pending` are the requests
\* still unanswered and `issued` the operations invoked so far by this run.
InvokeFrom(pending, issued, request) ==
    /\ inflight' = Append(pending, request)
    /\ calls' = Append(issued, request)
    /\ ncalls' = ncalls + 1

\* The first agent operation of an entry point
InvokeFirst(request) == InvokeFrom(inflight, << >>, request)

\* An agent operation sent off while the previous one is still unanswered
Invoke_without_waiting(request) == InvokeFrom(inflight, calls, request)

\* An agent operation invoked once the response to the previous one is in
Invoke(request) == InvokeFrom(Tail(inflight), calls, request)

\* The running operation returns `value` to its caller, the response to its
\* last generation call consumed
Return(op, value) ==
    /\ pc' = "idle"
    /\ locals' = [op |-> "none"]
    /\ inflight' = Tail(inflight)
    /\ last' = [op |-> op, status |-> "returned", value |-> value]

\* The running operation is aborted by the exception `exc`, raised by or
\* after its last generation call
Raise(op, exc) ==
    /\ pc' = "idle"
    /\ locals' = [op |-> "none"]
    /\ inflight' = Tail(inflight)
    /\ last' = [op |-> op, status |-> "raised", exc |-> exc]

(* simple_workflow *)

\* A run that starts its log afresh
SimpleStart_fresh_log(topic, context, writing_style, content_length) ==
    /\ pc = "idle"
    /\ nops < MaxOps
    /\ nops' = nops + 1
    /\ entry_len' = Len(workflow_history)
    /\ UNCHANGED sinks
    /\ ncalls + 3 <= MaxCalls
    /\ locals' = [op |-> "simple", topic |-> topic, context |-> context,
                  writing_style |-> writing_style, content_length |-> content_length]
    /\ InvokeFirst(ResearchRequest(topic, context))
    /\ pc' = "simple_research"
    /\ workflow_history' = << >>
    /\ UNCHANGED <<clock, records, last>>

SimpleStart(topic, context, writing_style, content_length) ==
    /\ pc = "idle"
    /\ nops < MaxOps
    /\ nops' = nops + 1
    /\ entry_len' = Len(workflow_history)
    /\ UNCHANGED sinks
    /\ ncalls + 3 <= MaxCalls
    /\ locals' = [op |-> "simple", topic |-> topic, context |-> context,
                  writing_style |-> writing_style, content_length |-> content_length]
    /\ InvokeFirst(ResearchRequest(topic, context))
    /\ pc' = "simple_research"
    /\ UNCHANGED <<workflow_history, clock, records, last>>

SimpleResearchDone(response) ==
    /\ pc = "simple_research"
    /\ LET research_result == ResearchResult(locals.topic, response)
       IN  /\ workflow_history' = log_step(workflow_history, clock, <<"research">>,
                                           ResearcherName, research_result)
           /\ locals' = locals @@ [research_result |-> research_result]
           /\ Invoke(FactCheckRequest(research_result.findings, locals.topic))
    /\ clock' = clock + 1
    /\ pc' = "simple_fact_check"
    /\ UNCHANGED <<records, last>>
    /\ UNCHANGED <<nops, entry_len, sinks>>

SimpleFactCheckDone(response) ==
    /\ pc = "simple_fact_check"
    /\ LET fact_check_result == FactCheckResult(locals.topic, response)
       IN  /\ workflow_history' = log_step(workflow_history, clock, <<"fact_check">>,
                                           FactCheckerName, fact_check_result)
           /\ locals' = locals @@ [fact_check_result |-> fact_check_result]
           /\ Invoke(WriteArticleRequest(locals.topic,
                                         locals.research_result.findings,
                                         fact_check_result.fact_check_report,
                                         locals.writing_style,
                                         locals.content_length))
    /\ clock' = clock + 1
    /\ pc' = "simple_write"
    /\ UNCHANGED <<records, last>>
    /\ UNCHANGED <<nops, entry_len, sinks>>

\* A run that returns a copy of the log as it is at the return
SimpleWriteDone_snapshot(response) ==
    /\ pc = "simple_write"
    /\ LET article_result == WriteArticleResult(locals.topic, locals.writing_style, response)
           result == [workflow_type    |-> "simple",
                      topic            |-> locals.topic,
                      research         |-> locals.research_result,
                      fact_check       |-> locals.fact_check_result,
                      article          |-> article_result,
                      workflow_history |-> [copy |-> workflow_history']]
       IN  /\ workflow_history' = log_step(workflow_history, clock, <<"write">>,
                                           WriterName, article_result)
           /\ records' = Append(records, result)
           /\ Return("simple", result)
    /\ clock' = clock + 1
    /\ UNCHANGED <<calls, ncalls>>
    /\ UNCHANGED <<nops, entry_len, sinks>>

SimpleWriteDone(response) ==
    /\ pc = "simple_write"
    /\ LET article_result == WriteArticleResult(locals.topic, locals.writing_style, response)
           result == [workflow_type    |-> "simple",
                      topic            |-> locals.topic,
                      research         |-> locals.research_result,
                      fact_check       |-> locals.fact_check_result,
                      article          |-> article_result,
                      workflow_history |-> HistoryRef]
       IN  /\ workflow_history' = log_step(workflow_history, clock, <<"write">>,
                                           WriterName, article_result)
           /\ records' = Append(records, result)
           /\ Return("simple", result)
    /\ clock' = clock + 1
    /\ UNCHANGED <<calls, ncalls>>
    /\ UNCHANGED <<nops, entry_len, sinks>>

(* iterative_workflow *)

\* A refined context that announces the feedback and leaves the report out
RefinedContext_without_report(fact_check_report) ==
    <<"Previous research was fact-checked. Address these points:\n">>

\* f"Previous research was fact-checked. Address these points:\n{report}"
RefinedContext(fact_check_report) ==
    <<"Previous research was fact-checked. Address these points:\n">> \o fact_check_report

IterativeStart(topic, initial_context, writing_style, content_length) ==
    /\ pc = "idle"
    /\ nops < MaxOps
    /\ nops' = nops + 1
    /\ entry_len' = Len(workflow_history)
    /\ UNCHANGED sinks
    /\ ncalls + 5 <= MaxCalls
    /\ locals' = [op |-> "iterative", topic |-> topic, initial_context |-> initial_context,
                  writing_style |-> writing_style, content_length |-> content_length]
    /\ InvokeFirst(ResearchRequest(topic, initial_context))
    /\ pc' = "iterative_initial_research"
    /\ UNCHANGED <<workflow_history, clock, records, last>>

IterativeInitialResearchDone(response) ==
    /\ pc = "iterative_initial_research"
    /\ LET initial_research == ResearchResult(locals.topic, response)
       IN  /\ workflow_history' = log_step(workflow_history, clock, <<"initial_research">>,
                                           ResearcherName, initial_research)
           /\ locals' = locals @@ [initial_research |-> initial_research]
           /\ Invoke(FactCheckRequest(initial_research.findings, locals.topic))
    /\ clock' = clock + 1
    /\ pc' = "iterative_fact_check"
    /\ UNCHANGED <<records, last>>
    /\ UNCHANGED <<nops, entry_len, sinks>>

\* A refinement pass that is skipped when the first report raises nothing:
\* the run goes on to the article with the first-pass findings and report
IterativeFactCheckDone_refine_on_demand(response) ==
    /\ pc = "iterative_fact_check"
    /\ LET fact_check_result == FactCheckResult(locals.topic, response)
           refined_context == RefinedContext(fact_check_result.fact_check_report)
       IN  /\ workflow_history' = log_step(workflow_history, clock, <<"fact_check">>,
                                           FactCheckerName, fact_check_result)
           /\ IF fact_check_result.fact_check_report = << >>
              THEN /\ locals' = locals @@ [fact_check_result |-> fact_check_result,
                                           refined_research |-> locals.initial_research,
                                           final_fact_check |-> fact_check_result]
                   /\ Invoke(WriteArticleRequest(locals.topic,
                                                 locals.initial_research.findings,
                                                 fact_check_result.fact_check_report,
                                                 locals.writing_style,
                                                 locals.content_length))
                   /\ pc' = "iterative_write"
              ELSE /\ locals' = locals @@ [fact_check_result |-> fact_check_result,
                                           refined_context |-> refined_context]
                   /\ Invoke(ResearchRequest(locals.topic, refined_context))
                   /\ pc' = "iterative_refined_research"
    /\ clock' = clock + 1
    /\ UNCHANGED <<records, last>>
    /\ UNCHANGED <<nops, entry_len, sinks>>

IterativeFactCheckDone(response) ==
    /\ pc = "iterative_fact_check"
    /\ LET fact_check_result == FactCheckResult(locals.topic, response)
           refined_context == RefinedContext(fact_check_result.fact_check_report)
       IN  /\ workflow_history' = log_step(workflow_history, clock, <<"fact_check">>,
                                           FactCheckerName, fact_check_result)
           /\ locals' = locals @@ [fact_check_result |-> fact_check_result,
                                   refined_context |-> refined_context]
           /\ Invoke(ResearchRequest(locals.topic, refined_context))
    /\ clock' = clock + 1
    /\ pc' = "iterative_refined_research"
    /\ UNCHANGED <<records, last>>
    /\ UNCHANGED <<nops, entry_len, sinks>>

IterativeRefinedResearchDone(response) ==
    /\ pc = "iterative_refined_research"
    /\ LET refined_research == ResearchResult(locals.topic, response)
       IN  /\ workflow_history' = log_step(workflow_history, clock, <<"refined_research">>,
                                           ResearcherName, refined_research)
           /\ locals' = locals @@ [refined_research |-> refined_research]
           /\ Invoke(FactCheckRequest(refined_research.findings, locals.topic))
    /\ clock' = clock + 1
    /\ pc' = "iterative_final_fact_check"
    /\ UNCHANGED <<records, last>>
    /\ UNCHANGED <<nops, entry_len, sinks>>

\* An article written from the first-pass findings and report
IterativeFinalFactCheckDone_first_pass(response) ==
    /\ pc = "iterative_final_fact_check"
    /\ LET final_fact_check == FactCheckResult(locals.topic, response)
       IN  /\ workflow_history' = log_step(workflow_history, clock, <<"final_fact_check">>,
                                           FactCheckerName, final_fact_check)
           /\ locals' = locals @@ [final_fact_check |-> final_fact_check]
           /\ Invoke(WriteArticleRequest(locals.topic,
                                         locals.initial_research.findings,
                                         locals.fact_check_result.fact_check_report,
                                         locals.writing_style,
                                         locals.content_length))
    /\ clock' = clock + 1
    /\ pc' = "iterative_write"
    /\ UNCHANGED <<records, last>>
    /\ UNCHANGED <<nops, entry_len, sinks>>

IterativeFinalFactCheckDone(response) ==
    /\ pc = "iterative_final_fact_check"
    /\ LET final_fact_check == FactCheckResult(locals.topic, response)
       IN  /\ workflow_history' = log_step(workflow_history, clock, <<"final_fact_check">>,
                                           FactCheckerName, final_fact_check)
           /\ locals' = locals @@ [final_fact_check |-> final_fact_check]
           /\ Invoke(WriteArticleRequest(locals.topic,
                                         locals.refined_research.findings,
                                         final_fact_check.fact_check_report,
                                         locals.writing_style,
                                         locals.content_length))
    /\ clock' = clock + 1
    /\ pc' = "iterative_write"
    /\ UNCHANGED <<records, last>>
    /\ UNCHANGED <<nops, entry_len, sinks>>

IterativeWriteDone(response) ==
    /\ pc = "iterative_write"
    /\ LET article_result == WriteArticleResult(locals.topic, locals.writing_style, response)
           result == [workflow_type      |-> "iterative",
                      topic              |-> locals.topic,
                      initial_research   |-> locals.initial_research,
                      initial_fact_check |-> locals.fact_check_result,
                      refined_research   |-> locals.refined_research,
                      final_fact_check   |-> locals.final_fact_check,
                      article            |-> article_result,
                      workflow_history   |-> HistoryRef]
       IN  /\ workflow_history' = log_step(workflow_history, clock, <<"write">>,
                                           WriterName, article_result)
           /\ records' = Append(records, result)
           /\ Return("iterative", result)
    /\ clock' = clock + 1
    /\ UNCHANGED <<calls, ncalls>>
    /\ UNCHANGED <<nops, entry_len, sinks>>

(* comparative_workflow *)

\* f"Focus on this perspective: {perspective}"
PerspectiveContext(perspective) == <<"Focus on this perspective: ">> \o perspective

\* "\n\n---\n\n".join(f"{perspective}:\n{content}" for ... in research_results.items())
CombinedResearch(research_results) ==
    Join(<<"\n\n---\n\n">>,
         [k \in 1..Len(research_results) |->
             research_results[k][1] \o <<":\n">> \o research_results[k][2]])

\* The steps a comparative run over n perspectives is expected to take
ComparativeCalls(n) == n + (IF n >= 2 THEN 1 ELSE 0) + 2

\* Step 3 of comparative_workflow: the overall fact-check is invoked
ComparativeFactCheck(loc, pending, issued) ==
    /\ locals' = loc
    /\ InvokeFrom(pending, issued,
                  FactCheckRequest(CombinedResearch(loc.research_results), loc.topic))
    /\ pc' = "comparative_overall_fact_check"
    /\ UNCHANGED last

\* A cross-check guard that is off by one
NeedsCrossCheck_above_two(perspectives) == Len(perspectives) > 2

\* Line 239: the guard of the cross-check
NeedsCrossCheck(perspectives) == Len(perspectives) >= 2

\* Step 2 of comparative_workflow, entered when the research loop is over,
\* with the local variables loc
ComparativeCrossCheck(loc, pending, issued) ==
    IF NeedsCrossCheck(loc.perspectives)
    THEN LET perspectives_list == DictKeys(loc.research_results)
         IN  IF Len(perspectives_list) < 2
             THEN \* perspectives_list[1] is out of range
                  /\ pc' = "idle"
                  /\ locals' = [op |-> "none"]
                  /\ inflight' = pending
                  /\ last' = [op |-> "comparative", status |-> "raised",
                              exc |-> "IndexError"]
                  /\ calls' = issued
                  /\ UNCHANGED ncalls
             ELSE /\ locals' = loc
                  /\ InvokeFrom(pending, issued,
                                CrossCheckRequest(
                                    DictGet(loc.research_results, perspectives_list[1]),
                                    DictGet(loc.research_results, perspectives_list[2]),
                                    loc.topic))
                  /\ pc' = "comparative_cross_check"
                  /\ UNCHANGED last
    ELSE ComparativeFactCheck(loc @@ [cross_check_result |-> None], pending, issued)

ComparativeStart(topic, perspectives, writing_style) ==
    /\ pc = "idle"
    /\ nops < MaxOps
    /\ nops' = nops + 1
    /\ entry_len' = Len(workflow_history)
    /\ UNCHANGED sinks
    /\ ncalls + ComparativeCalls(Len(perspectives)) <= MaxCalls
    /\ LET loc == [op |-> "comparative", topic |-> topic, perspectives |-> perspectives,
                   writing_style |-> writing_style, research_results |-> << >>, i |-> 1]
       IN  IF Len(perspectives) >= 1
           THEN /\ locals' = loc
                /\ InvokeFirst(ResearchRequest(topic, PerspectiveContext(perspectives[1])))
                /\ pc' = "comparative_research"
                /\ UNCHANGED last
           ELSE ComparativeCrossCheck(loc, inflight, << >>)
    /\ UNCHANGED <<workflow_history, clock, records>>

\* One iteration of the research loop ends; the next one, or step 2, starts
ComparativeResearchDone(response) ==
    /\ pc = "comparative_research"
    /\ LET i == locals.i
           perspective == locals.perspectives[i]
           result == ResearchResult(locals.topic, response)
           loc == [locals EXCEPT !.research_results = DictSet(@, perspective, result.findings)]
       IN  /\ workflow_history' = log_step(workflow_history, clock,
                                           <<"research_perspective_", ToString(i)>>,
                                           ResearcherName, result)
           /\ IF i < Len(locals.perspectives)
              THEN /\ locals' = [loc EXCEPT !.i = i + 1]
                   /\ Invoke(ResearchRequest(locals.topic,
                                             PerspectiveContext(locals.perspectives[i + 1])))
                   /\ pc' = "comparative_research"
                   /\ UNCHANGED last
              ELSE ComparativeCrossCheck(loc, Tail(inflight), calls)
    /\ clock' = clock + 1
    /\ UNCHANGED records
    /\ UNCHANGED <<nops, entry_len, sinks>>

\* A cross-check whose result is kept but whose step is not logged
ComparativeCrossCheckDone_unlogged(response) ==
    /\ pc = "comparative_cross_check"
    /\ LET cross_check_result == CrossCheckResult(locals.topic, response)
       IN  ComparativeFactCheck(locals @@ [cross_check_result |-> cross_check_result],
                                Tail(inflight), calls)
    /\ UNCHANGED <<workflow_history, clock, records>>
    /\ UNCHANGED <<nops, entry_len, sinks>>

ComparativeCrossCheckDone(response) ==
    /\ pc = "comparative_cross_check"
    /\ LET cross_check_result == CrossCheckResult(locals.topic, response)
       IN  /\ workflow_history' = log_step(workflow_history, clock, <<"cross_check">>,
                                           FactCheckerName, cross_check_result)
           /\ ComparativeFactCheck(locals @@ [cross_check_result |-> cross_check_result],
                                   Tail(inflight), calls)
    /\ clock' = clock + 1
    /\ UNCHANGED records
    /\ UNCHANGED <<nops, entry_len, sinks>>

ComparativeOverallFactCheckDone(response) ==
    /\ pc = "comparative_overall_fact_check"
    /\ LET overall_fact_check == FactCheckResult(locals.topic, response)
           \* cross_check_result["cross_check_report"] if cross_check_result else None
           cross_check_report ==
               IF locals.cross_check_result # None
               THEN [text |-> locals.cross_check_result.cross_check_report]
               ELSE None
       IN  /\ workflow_history' = log_step(workflow_history, clock, <<"overall_fact_check">>,
                                           FactCheckerName, overall_fact_check)
           /\ locals' = locals @@ [overall_fact_check |-> overall_fact_check]
           /\ Invoke(WriteComparisonRequest(locals.topic, locals.research_results,
                                            cross_check_report))
    /\ clock' = clock + 1
    /\ pc' = "comparative_write_comparison"
    /\ UNCHANGED <<records, last>>
    /\ UNCHANGED <<nops, entry_len, sinks>>

ComparativeWriteComparisonDone(response) ==
    /\ pc = "comparative_write_comparison"
    /\ LET comparison_result == WriteComparisonResult(locals.topic, response)
           result == [workflow_type      |-> "comparative",
                      topic              |-> locals.topic,
                      perspectives       |-> locals.perspectives,
                      research_results   |-> locals.research_results,
                      cross_check        |-> locals.cross_check_result,
                      overall_fact_check |-> locals.overall_fact_check,
                      comparison         |-> comparison_result,
                      workflow_history   |-> HistoryRef]
       IN  /\ workflow_history' = log_step(workflow_history, clock, <<"write_comparison">>,
                                           WriterName, comparison_result)
           /\ records' = Append(records, result)
           /\ Return("comparative", result)
    /\ clock' = clock + 1
    /\ UNCHANGED <<calls, ncalls>>
    /\ UNCHANGED <<nops, entry_len, sinks>>

(* get_summary *)

\* A returned dict as the caller sees it: its "workflow_history" is the
\* orchestrator's list itself
View(workflow_result) ==
    IF "workflow_history" \in DOMAIN workflow_result
    THEN [workflow_result EXCEPT !.workflow_history = Deref(@)]
    ELSE workflow_result

\* str(workflow_result) of a dict that holds a topic only
PyStr(workflow_result) == <<"{'topic': '">> \o workflow_result.topic \o <<"'}">>

\* The dicts a caller hands to get_summary: a dict a pipeline returned, or
\* one of its own making without article and comparison
SummaryInputs == {records[k] : k \in 1..Len(records)} \cup {[topic |-> t] : t \in CallTopics}

\* A summary drawn from the research findings when the dict has them
SummaryContent_from_research(workflow_result) ==
    IF "research" \in DOMAIN workflow_result THEN workflow_result.research.findings
    ELSE IF "article" \in DOMAIN workflow_result THEN workflow_result.article.content
    ELSE IF "comparison" \in DOMAIN workflow_result THEN workflow_result.comparison.content
    ELSE PyStr(workflow_result)

\* Lines 299-304: the text to summarise
SummaryContent(workflow_result) ==
    IF "article" \in DOMAIN workflow_result THEN workflow_result.article.content
    ELSE IF "comparison" \in DOMAIN workflow_result THEN workflow_result.comparison.content
    ELSE PyStr(workflow_result)

SummaryParagraphs == 3

GetSummaryStart(workflow_result) ==
    /\ pc = "idle"
    /\ nops < MaxOps
    /\ nops' = nops + 1
    /\ entry_len' = Len(workflow_history)
    /\ UNCHANGED sinks
    /\ ncalls + 1 <= MaxCalls
    /\ LET content == SummaryContent(workflow_result)
       IN  /\ locals' = [op |-> "get_summary", workflow_result |-> workflow_result,
                         content |-> content]
           /\ InvokeFirst(WriteSummaryRequest(workflow_result.topic, content,
                                              SummaryParagraphs))
    /\ pc' = "get_summary_write_summary"
    /\ UNCHANGED <<workflow_history, clock, records, last>>

GetSummaryDone(response) ==
    /\ pc = "get_summary_write_summary"
    /\ LET summary_result == WriteSummaryResult(locals.workflow_result.topic, response)
       IN  Return("get_summary", summary_result.content)
    /\ UNCHANGED <<workflow_history, clock, calls, ncalls, records>>
    /\ UNCHANGED <<nops, entry_len, sinks>>

(* save_workflow_results *)

\* json.dump(workflow_result, f, indent=2, ensure_ascii=False): the document
\* holds the values the dict leads to when it is written, the list behind
\* "workflow_history" included
JsonDump(workflow_result) ==
    [indent |-> 2, ensure_ascii |-> FALSE, document |-> View(workflow_result)]

\* The caller saves the k-th dict a pipeline returned to it to the next sink
\* of Filenames (sinks[f] is the file named Filenames[f])
SaveWorkflowResults(k, filename) ==
    /\ pc = "idle"
    /\ sinks[filename] = NoFile
    /\ \A f \in 1..(filename - 1) : sinks[f] # NoFile
    /\ LET workflow_result == records[k]
       IN  sinks' = [sinks EXCEPT ![filename] =
                        [exists |-> TRUE, of |-> k, content |-> JsonDump(workflow_result)]]
    /\ last' = [op |-> "save_workflow_results", status |-> "returned", value |-> None]
    /\ calls' = << >>
    /\ entry_len' = Len(workflow_history)
    /\ UNCHANGED <<workflow_history, clock, pc, locals, inflight, ncalls, nops, records>>

\* A failure handler that drops the log entries of the failed run
GenerationFails_rollback ==
    /\ pc # "idle"
    /\ Raise(locals.op, "GenerationError")
    /\ workflow_history' = SubSeq(workflow_history, 1, entry_len)
    /\ UNCHANGED <<clock, calls, ncalls, records>>
    /\ UNCHANGED <<nops, entry_len, sinks>>

\* The generation capability fails: nothing catches the exception, so it
\* leaves the running operation.
GenerationFails ==
    /\ pc # "idle"
    /\ Raise(locals.op, "GenerationError")
    /\ UNCHANGED <<workflow_history, clock, calls, ncalls, records>>
    /\ UNCHANGED <<nops, entry_len, sinks>>

Next ==
    \/ \E t \in CallTopics, c \in Contexts : SimpleStart(t, c, "informative", "medium")
    \/ \E r \in Responses : SimpleResearchDone(r)
    \/ \E r \in Responses : SimpleFactCheckDone(r)
    \/ \E r \in Responses : SimpleWriteDone(r)
    \/ \E t \in CallTopics, c \in Contexts : IterativeStart(t, c, "informative", "medium")
    \/ \E r \in Responses : IterativeInitialResearchDone(r)
    \/ \E r \in Responses : IterativeFactCheckDone(r)
    \/ \E r \in Responses : IterativeRefinedResearchDone(r)
    \/ \E r \in Responses : IterativeFinalFactCheckDone(r)
    \/ \E r \in Responses : IterativeWriteDone(r)
    \/ \E t \in CallTopics, ps \in PerspectiveLists : ComparativeStart(t, ps, "analytical")
    \/ \E r \in Responses : ComparativeResearchDone(r)
    \/ \E r \in Responses : ComparativeCrossCheckDone(r)
    \/ \E r \in Responses : ComparativeOverallFactCheckDone(r)
    \/ \E r \in Responses : ComparativeWriteComparisonDone(r)
    \/ \E w \in SummaryInputs : GetSummaryStart(w)
    \/ \E r \in Responses : GetSummaryDone(r)
    \/ \E k \in 1..Len(records), f \in 1..Len(Filenames) : SaveWorkflowResults(k, f)
    \/ GenerationFails

Spec == Init /\ [][Next]_vars

----------------------------------------------------------------------------
(* Properties *)

Pipelines == {"simple", "iterative", "comparative"}

\* The last operation called was `op` and it has returned to its caller
Finished(op) == pc = "idle" /\ last.op = op /\ last.status = "returned"

StepNames(history) == [k \in 1..Len(history) |-> history[k].step]

\* The log entries appended since the current (or last) operation was called
Appended ==
    [k \in 1..(Len(workflow_history) - entry_len) |-> workflow_history[entry_len + k]]

\* The agent operations invoked by the current (or last) operation, in order
CallOps == [k \in 1..Len(calls) |-> calls[k].op]

SimpleSteps == << <<"research">>, <<"fact_check">>, <<"write">> >>

\* C1, as stated: after any successful simple_workflow run the step log
\* holds exactly the 3 entries research, fact_check, write.
C1_LogIsThreeEntries ==
    Finished("simple") => StepNames(workflow_history) = SimpleSteps

\* C1, amended: a successful simple_workflow run appends exactly 3 entries,
\* research, fact_check, write, to the step log it found; the log holds
\* exactly these 3 when it was empty at the call.
C1_SimpleAppendsThree ==
    Finished("simple") =>
        /\ StepNames(Appended) = SimpleSteps
        /\ Len(workflow_history) = entry_len + 3
        /\ (entry_len = 0 => StepNames(workflow_history) = SimpleSteps)

\* A simple run has returned on an orchestrator whose log was not empty
C1_Witness == Finished("simple") /\ entry_len > 0

IterativeSteps ==
    << <<"initial_research">>, <<"fact_check">>, <<"refined_research">>,
       <<"final_fact_check">>, <<"write">> >>

\* C2: a successful iterative_workflow run appends exactly 5 entries, initial
\* research, fact-check, refined research, final fact-check, write, and it
\* runs the refinement pass (a second research, a second fact-check) exactly
\* once, whatever the first report says.
C2_IterativeFiveSteps ==
    Finished("iterative") =>
        /\ StepNames(Appended) = IterativeSteps
        /\ CallOps = <<"research", "fact_check", "research", "fact_check", "write_article">>

\* An iterative run has returned whose first fact-check report was empty
C2_Witness ==
    /\ Finished("iterative")
    /\ last.value.initial_fact_check.fact_check_report = << >>
    /\ last.value.refined_research.findings # << >>

\* C3: while the refined research call of iterative_workflow is in flight,
\* the first fact-check report is a contiguous part of the context handed
\* to research(), of the context research() hands to the generation
\* capability, and of the prompt built from it.
C3_RefinedContextHoldsReport ==
    pc = "iterative_refined_research" =>
        LET report == workflow_history[entry_len + 2].data.fact_check_report
            request == inflight[Len(inflight)]
        IN  /\ report = locals.fact_check_result.fact_check_report
            /\ IsSubstring(report, locals.refined_context)
            /\ request.op = "research"
            /\ IsSubstring(report, request.context)
            /\ IsSubstring(report, request.prompt)

\* The refined research call is in flight after a non-empty first report
C3_Witness ==
    /\ pc = "iterative_refined_research"
    /\ locals.fact_check_result.fact_check_report = <<"x", "y">>

\* The step names of a comparative run over n perspectives
ComparativeSteps(n) ==
    [k \in 1..n |-> <<"research_perspective_", ToString(k)>>]
    \o (IF n >= 2 THEN << <<"cross_check">> >> ELSE << >>)
    \o << <<"overall_fact_check">>, <<"write_comparison">> >>

\* C4: a successful comparative_workflow run over N perspectives appends
\* exactly N + (1 if N >= 2 else 0) + 2 entries: N research entries, then at
\* most one cross-check entry, one fact-check entry and one write entry.
C4_ComparativeStepCount ==
    Finished("comparative") =>
        LET n == Len(last.value.perspectives)
        IN  /\ Len(workflow_history) - entry_len = n + (IF n >= 2 THEN 1 ELSE 0) + 2
            /\ StepNames(Appended) = ComparativeSteps(n)

\* A comparative run over two perspectives has returned
C4_Witness == Finished("comparative") /\ Len(last.value.perspectives) = 2

\* C5, as stated: the perspectives-to-findings mapping a comparative run
\* returns has one entry per label of the input list, in the list's order.
C5_MappingHasNEntries ==
    Finished("comparative") =>
        /\ Len(last.value.research_results) = Len(last.value.perspectives)
        /\ DictKeys(last.value.research_results) = last.value.perspectives

\* A comparative run may end only by returning or on a generation failure
ComparativeEndsNormally ==
    (pc = "idle" /\ last.op = "comparative" /\ last.status = "raised")
        => last.exc = "GenerationError"

\* C6, as stated: over N >= 2 labels one cross-check is made, on the findings
\* of the first and of the second perspective of the input list, in that
\* order; over N < 2 labels none is made, cross_check is null, and the run
\* does not fail for it.
C6_CrossCheckFirstTwo ==
    /\ pc = "comparative_cross_check" =>
           /\ inflight[Len(inflight)].research_a = Appended[1].data.findings
           /\ inflight[Len(inflight)].research_b = Appended[2].data.findings
    /\ Finished("comparative") =>
           LET n == Len(last.value.perspectives)
               made == {k \in 1..Len(calls) : calls[k].op = "cross_check"}
           IN  IF n >= 2
               THEN Cardinality(made) = 1 /\ last.value.cross_check # None
               ELSE made = {} /\ last.value.cross_check = None
    /\ ComparativeEndsNormally

\* The run was the first operation called on the orchestrator
Fresh == nops = 1

HasCrossCheckStep == \E k \in 1..Len(workflow_history) :
                         workflow_history[k].step = <<"cross_check">>

\* C7, as stated: on a fresh orchestrator ["A","B"] leaves a cross-check step
\* and 4 entries, ["A"] no cross-check step and 3 entries.
C7_FourEntries ==
    (Finished("comparative") /\ Fresh) =>
        /\ last.value.perspectives = << <<"A">>, <<"B">> >> =>
               HasCrossCheckStep /\ Len(workflow_history) = 4
        /\ last.value.perspectives = << <<"A">> >> =>
               ~HasCrossCheckStep /\ Len(workflow_history) = 3

\* C7, amended: on a fresh orchestrator ["A","B"] leaves a cross-check step
\* and 5 entries, ["A"] no cross-check step and 3 entries.
C7_FiveEntries ==
    (Finished("comparative") /\ Fresh) =>
        /\ last.value.perspectives = << <<"A">>, <<"B">> >> =>
               HasCrossCheckStep /\ Len(workflow_history) = 5
        /\ last.value.perspectives = << <<"A">> >> =>
               ~HasCrossCheckStep /\ Len(workflow_history) = 3

\* The run over ["A","B"] has returned on a fresh orchestrator
C7_Witness ==
    /\ Finished("comparative")
    /\ Fresh
    /\ last.value.perspectives = << <<"A">>, <<"B">> >>

\* A running pipeline ends in this step on a failure of the generation call
PipelineFailsOnGeneration ==
    /\ pc # "idle"
    /\ locals.op \in Pipelines
    /\ pc' = "idle"
    /\ last'.status = "raised"
    /\ last'.exc = "GenerationError"

\* C8: a generation failure at step k of a pipeline ends the run there: the
\* exception reaches the caller, no further agent operation is invoked, no
\* record is returned, and the k-1 entries logged by the run stay as they are.
C8_FailureAborts ==
    [][PipelineFailsOnGeneration =>
          /\ last'.op = locals.op
          /\ calls' = calls /\ ncalls' = ncalls /\ inflight' = << >>
          /\ records' = records
          /\ workflow_history' = workflow_history
          /\ Len(workflow_history') = entry_len + Len(calls) - 1]_vars

\* An iterative run has failed in its third step, two entries logged
C8_Witness ==
    /\ pc = "idle"
    /\ last.op = "iterative" /\ last.status = "raised" /\ last.exc = "GenerationError"
    /\ Len(calls) = 3
    /\ Len(workflow_history) = entry_len + 2

\* C9, as stated: a successful get_summary call appends one entry, that of
\* its write_summary step, to the step log.
C9_SummaryIsLogged ==
    Finished("get_summary") =>
        /\ Len(workflow_history) = entry_len + 1
        /\ workflow_history[Len(workflow_history)].agent = WriterName

\* The text get_summary is to summarise for a dict returned by a pipeline
PrimaryArtifact(workflow_result) ==
    IF workflow_result.workflow_type \in {"simple", "iterative"}
    THEN workflow_result.article.content
    ELSE workflow_result.comparison.content

\* C10: get_summary invokes one agent operation, Writer.write_summary, with
\* the record's topic, max_paragraphs = 3 and, as content, the article of a
\* Simple or Iterative record and the comparison of a Comparative one.
C10_OneSummaryCall ==
    /\ (pc = "get_summary_write_summary" \/ (pc = "idle" /\ last.op = "get_summary")) =>
           /\ Len(calls) = 1
           /\ calls[1].agent = WriterName
           /\ calls[1].op = "write_summary"
           /\ calls[1].paragraphs = 3
    /\ (pc = "get_summary_write_summary"
          /\ "workflow_type" \in DOMAIN locals.workflow_result) =>
           /\ inflight = <<calls[1]>>
           /\ calls[1].topic = locals.workflow_result.topic
           /\ calls[1].research = PrimaryArtifact(locals.workflow_result)

\* The summary call of a Comparative record is in flight
C10_Witness ==
    /\ pc = "get_summary_write_summary"
    /\ "workflow_type" \in DOMAIN locals.workflow_result
    /\ locals.workflow_result.workflow_type = "comparative"
    /\ locals.workflow_result.comparison.content # << >>

\* C11: over any sequence of pipeline runs, get_summary and
\* save_workflow_results calls, successful or not, the step log only grows
\* at its end: every step leaves the log it found as a prefix of the new log.
C11_AppendOnly ==
    [][/\ Len(workflow_history') >= Len(workflow_history)
       /\ SubSeq(workflow_history', 1, Len(workflow_history)) = workflow_history]_vars

\* A later operation has appended to a log that an earlier run filled and
\* that was saved in between
C11_Witness ==
    /\ entry_len > 0
    /\ Len(workflow_history) > entry_len
    /\ sinks[1] # NoFile

\* The topics of the StepResults a returned dict names
NamedTopics(workflow_result) ==
    IF workflow_result.workflow_type = "simple"
    THEN {workflow_result.research.topic, workflow_result.fact_check.topic,
          workflow_result.article.topic}
    ELSE IF workflow_result.workflow_type = "iterative"
    THEN {workflow_result.initial_research.topic, workflow_result.initial_fact_check.topic,
          workflow_result.refined_research.topic, workflow_result.final_fact_check.topic,
          workflow_result.article.topic}
    ELSE {workflow_result.overall_fact_check.topic, workflow_result.comparison.topic}
         \cup (IF workflow_result.cross_check # None
               THEN {workflow_result.cross_check.topic} ELSE {})

\* C12, as stated: every StepResult of a returned WorkflowRecord, those of
\* its workflow_history included, has the record's topic, after any sequence
\* of pipeline runs on the instance.
C12_TopicsAgree ==
    \A k \in 1..Len(records) :
        LET workflow_result == View(records[k])
        IN  /\ NamedTopics(workflow_result) = {workflow_result.topic}
            /\ \A e \in 1..Len(workflow_result.workflow_history) :
                   workflow_result.workflow_history[e].data.topic = workflow_result.topic

\* A pipeline is blocked in the generation call of one of its steps
RunningPipeline == pc # "idle" /\ locals.op \in Pipelines

\* A pipeline has ended without a generation failure
PipelineEnded ==
    /\ pc = "idle"
    /\ last.op \in Pipelines
    /\ ~(last.status = "raised" /\ last.exc = "GenerationError")

\* The first n entries of the run are those of its first n agent operations
EntriesFollowCalls(n) ==
    \A k \in 1..n : /\ Appended[k].agent = calls[k].agent
                    /\ Appended[k].data.agent = calls[k].agent

\* C13, as stated: each step appends one entry, in execution order, and the
\* entry of a step is in the log before the step has produced its StepResult
\* (that is, while the step's operation is still waiting for its response).
C13_EntryBeforeResult ==
    RunningPipeline =>
        /\ Len(Appended) = Len(calls)
        /\ EntriesFollowCalls(Len(calls) - 1)

\* C13, amended: each step appends one entry, in execution order, and the
\* entry of a step is appended once the step has produced its StepResult,
\* which it carries, and before the next step's operation is invoked.
C13_EntryAfterResult ==
    /\ RunningPipeline =>
           /\ Len(Appended) = Len(calls) - 1
           /\ EntriesFollowCalls(Len(calls) - 1)
    /\ PipelineEnded =>
           /\ Len(Appended) = Len(calls)
           /\ EntriesFollowCalls(Len(calls))

\* The fourth step of an iterative run is waiting for its response
C13_Witness == pc = "iterative_final_fact_check" /\ Len(Appended) = 3

\* The texts of parts occur in doc one after another, in this order
RECURSIVE InOrder(_, _)
InOrder(parts, doc) ==
    IF Len(parts) = 0 THEN TRUE
    ELSE \E i \in 0..(Len(doc) - Len(parts[1])) :
             /\ SubSeq(doc, i + 1, i + Len(parts[1])) = parts[1]
             /\ InOrder(Tail(parts), SubSeq(doc, i + Len(parts[1]) + 1, Len(doc)))

\* C14, as stated: the document of the overall fact-check of a comparative
\* run holds the findings returned by each of the N research calls, in the
\* order of the input list.
C14_AllFindingsChecked ==
    pc = "comparative_overall_fact_check" =>
        LET n == Len(locals.perspectives)
            request == inflight[Len(inflight)]
        IN  /\ request.op = "fact_check"
            /\ InOrder([k \in 1..n |-> Appended[k].data.findings], request.content)

\* C15, as stated: two serializations of the same WorkflowRecord to two
\* sinks have the same content, whatever the instance did in between.
C15_SameContent ==
    \A f, g \in 1..Len(Filenames) :
        (sinks[f] # NoFile /\ sinks[g] # NoFile /\ sinks[f].of = sinks[g].of)
            => sinks[f].content = sinks[g].content

\* C16: execution is sequential: at most one generation call is in flight,
\* it is the one invoked last, none is in flight between operations, and a
\* comparative run issues its research calls and appends their entries
\* research_perspective_1 .. N in the order of the input list.
C16_Sequential ==
    /\ Len(inflight) <= 1
    /\ pc = "idle" => inflight = << >>
    /\ pc # "idle" => inflight = <<calls[Len(calls)]>>
    /\ pc = "comparative_research" =>
           /\ Len(calls) = locals.i
           /\ \A k \in 1..locals.i :
                  /\ calls[k].op = "research"
                  /\ calls[k].context = PerspectiveContext(locals.perspectives[k])
           /\ \A k \in 1..(locals.i - 1) :
                  Appended[k].step = <<"research_perspective_", ToString(k)>>
    /\ Finished("comparative") =>
           \A k \in 1..Len(last.value.perspectives) :
               /\ calls[k].context = PerspectiveContext(last.value.perspectives[k])
               /\ Appended[k].step = <<"research_perspective_", ToString(k)>>

\* The third research call of a comparative run is in flight
C16_Witness == pc = "comparative_research" /\ locals.i = 3 /\ Len(inflight) = 1

\* C17: a simple run fact-checks and writes from the findings of its one
\* research step and writes from that fact-check's report; an iterative run
\* runs its second fact-check on the refined findings and writes from the
\* refined findings and the second report.
C17_OutputsThreaded ==
    /\ Finished("simple") =>
           /\ calls[2].content = Appended[1].data.findings
           /\ calls[3].research = Appended[1].data.findings
           /\ calls[3].fact_check = Appended[2].data.fact_check_report
    /\ Finished("iterative") =>
           /\ calls[2].content = Appended[1].data.findings
           /\ calls[4].content = Appended[3].data.findings
           /\ calls[5].research = Appended[3].data.findings
           /\ calls[5].fact_check = Appended[4].data.fact_check_report
           /\ last.value.refined_research = Appended[3].data
           /\ last.value.final_fact_check = Appended[4].data

\* An iterative run has returned whose two passes differ in findings and report
C17_Witness ==
    /\ Finished("iterative")
    /\ Appended[1].data.findings # Appended[3].data.findings
    /\ Appended[2].data.fact_check_report # Appended[4].data.fact_check_report

\* C18: the workflow_history of every record the instance has returned is
\* the instance's step log as it is now, so all returned records show the
\* same history.
C18_HistoryIsLive ==
    \A k \in 1..Len(records) :
        /\ Deref(records[k].workflow_history) = workflow_history
        /\ View(records[k]).workflow_history = View(records[1]).workflow_history

\* Two records were returned, the log having grown after the first
C18_Witness ==
    /\ Len(records) = 2
    /\ pc = "idle"
    /\ Len(workflow_history) > 3
    /\ records[1].workflow_type = "simple"

\* C19, as stated: a comparative run fails only when a generation call
\* fails, for every list of labels, the empty one and those with repeated
\* labels included.
C19_OnlyGenerationFails ==
    (last.op = "comparative" /\ last.status = "raised") => last.exc # "IndexError"

====
